---- MODULE Spec2Model ----
(***************************************************************************)
(* A model of com_rs: the word-oriented codecs of src/src/serdes.rs        *)
(* (StringSer, StringDes, Ipv4Conf) and the verb table of src/src/lib.rs   *)
(* (ComState).  Bytes are 0..255, words are 0..65535, a string is the      *)
(* sequence of its UTF-8 bytes.  An array is the sequence of its elements: *)
(* At(a, i) is the source's a[i], with indices from 0.                     *)
(***************************************************************************)
EXTENDS Integers, Sequences, FiniteSets, TLC

VARIABLES
    U16_LEN,    \* const generic of the StringSer / StringDes pair
    u16_buf,    \* StringSer.u16_buf
    len,        \* StringDes.len
    u8_buf,     \* StringDes.u8_buf
    op,         \* the last call made: "new", "encode" or "decode"
    enc_in,     \* argument s of the last encode
    ser_ret,    \* what the last encode returned: "Ok", "StrLenTooBig" ("None" before)
    dec_in,     \* argument u16_buf of the last decode_u16
    des_ret,    \* what the last decode_u16 returned: "Ok", "StrLenTooBig", "Utf8Decode", "Panic"
    hi_word,    \* largest index of dec_in the last decode_u16 read (-1: none)
    hi_byte,    \* largest index of u8_buf the last decode_u16 wrote or read (-1: none)
    calls,      \* number of calls made so far
    conf,       \* an Ipv4Conf: the record being sent
    ip_ret,     \* how conf.encode_u16() ended: "None" (not called), "Ok", "Panic"
    data,       \* the words conf.encode_u16() returned (<<>> without)
    dec_data,   \* argument data of the last Ipv4Conf::decode_u16 (<<>> before)
    conf_out,   \* <<r>> for the record r that decode_u16 returned (<<>> before)
    code,       \* the 16-bit verb code looked up in the table (-1 before)
    found,      \* the constants of ComState whose verb is that code
    state,      \* a 16-bit status word: the argument of the status decoders
    link_out,   \* what LinkState::decode_u16(state) returned ("None" before)
    connect_out \* what ConnectResult::decode_u16(state) returned ("None" before)

strVars == <<U16_LEN, u16_buf, len, u8_buf, op, enc_in, ser_ret, dec_in, des_ret,
             hi_word, hi_byte, calls>>

ipVars == <<conf, ip_ret, data, dec_data, conf_out>>

verbVars == <<code, found>>

statusVars == <<state, link_out, connect_out>>

vars == <<strVars, ipVars, verbVars, statusVars>>

----------------------------------------------------------------------------
(* Bounds of the model *)

\* largest small capacity explored exhaustively
MaxU16Len == 3
\* number of encode / decode calls made on one pair of instances
MaxCalls == 3

(* Widths of the machine integers *)
WordMod == 65536
ByteMod == 256

\* The smallest capacity whose byte capacity 2*(U16_LEN-1) exceeds what a
\* 16-bit length word can hold.
WideU16Len == (WordMod \div 2) + 2

----------------------------------------------------------------------------
(* Integer helpers of the source *)

\* str_len as u16
AsU16(n) == n % WordMod

\* the bytes packed high byte first
FromBeBytes(b0, b1) == ByteMod * b0 + b1

\* u16::from_le_bytes([b0, b1])
FromLeBytes(b0, b1) == b0 + ByteMod * b1

\* the bytes of a word taken high byte first
ToBeByte(w, k) == IF k = 0 THEN w \div ByteMod ELSE w % ByteMod

\* src.to_le_bytes()[k], k = 0 or 1
ToLeByte(w, k) == IF k = 0 THEN w % ByteMod ELSE w \div ByteMod

\* const U8_LEN: usize = 2 * (U16_LEN - 1)
U8_LEN == 2 * (U16_LEN - 1)

\* a[i] of an array a, indices from 0
At(a, i) == a[i + 1]

\* the array of n elements that f[1], ..., f[n] are
Array(f, n) == SubSeq(f, 1, n)

----------------------------------------------------------------------------
(* core::str::from_utf8: the well-formed byte sequences of UTF-8 *)

IsCont(b) == b >= 128 /\ b <= 191

\* number of bytes of the character a lead byte starts; 0 for no lead byte
Utf8Width(b) ==
    IF b <= 127 THEN 1
    ELSE IF b >= 194 /\ b <= 223 THEN 2
    ELSE IF b >= 224 /\ b <= 239 THEN 3
    ELSE IF b >= 240 /\ b <= 244 THEN 4
    ELSE 0

\* the range of the byte that follows lead byte b
SecondOk(b, c) ==
    IF b = 224 THEN c >= 160 /\ c <= 191
    ELSE IF b = 237 THEN c >= 128 /\ c <= 159
    ELSE IF b = 240 THEN c >= 144 /\ c <= 191
    ELSE IF b = 244 THEN c >= 128 /\ c <= 143
    ELSE IsCont(c)

\* from_utf8(&s[..n]) is Ok.  Every byte that is no continuation byte starts
\* a complete character, and every continuation byte belongs to the character
\* started by the nearest byte before it that is none.
from_utf8_ok(s, n) ==
    \A i \in 1..n :
        LET b == s[i]
            w == Utf8Width(b)
        IN  IF b <= 127 THEN TRUE
            ELSE IF IsCont(b)
            THEN \E d \in 1..3 :
                    /\ i - d >= 1
                    /\ ~IsCont(s[i - d])
                    /\ \A e \in 1..(d - 1) : IsCont(s[i - e])
                    /\ Utf8Width(s[i - d]) > d
            ELSE /\ w >= 2
                 /\ i + w - 1 <= n
                 /\ \A k \in 1..(w - 1) : IsCont(s[i + k])
                 /\ SecondOk(b, s[i + 1])

----------------------------------------------------------------------------
(* StringSer *)

\* pub const STR_32_WORDS: usize = 17: 1 length + 16 data
STR_32_WORDS == 17
\* pub const STR_64_WORDS: usize = 33: 1 length + 32 data
STR_64_WORDS == 33

\* StringSer::new: [0; U16_LEN]
StringSerNew(cap) == Array([i \in 1..cap |-> 0], cap)

\* encode without the break after the remainder: every word after it is
\* assigned the remainder too
EncodeWordNoBreak(buf, s, str_len, i) ==
    IF i = 0 THEN AsU16(str_len)
    ELSE IF i <= str_len \div 2 THEN FromLeBytes(s[2 * i - 1], s[2 * i])
    ELSE IF str_len % 2 = 1 THEN FromLeBytes(s[str_len], 0)
    ELSE At(buf, i)

\* encode without the branch for the remainder: an odd last byte is dropped
EncodeWordNoRem(buf, s, str_len, i) ==
    IF i = 0 THEN AsU16(str_len)
    ELSE IF i <= str_len \div 2 THEN FromLeBytes(s[2 * i - 1], s[2 * i])
    ELSE At(buf, i)

\* The buffer after the body of encode past its length check: the length word,
\* then one word per chunk of chunks_exact(2), then the remainder, if any,
\* with a zero high byte; the loop breaks there and writes nothing more.
\* str_len is s.len(), i the index of the word.
EncodeWord(buf, s, str_len, i) ==
    IF i = 0 THEN AsU16(str_len)
    ELSE IF i <= str_len \div 2 THEN FromLeBytes(s[2 * i - 1], s[2 * i])
    ELSE IF i = (str_len \div 2) + 1 /\ str_len % 2 = 1 THEN FromLeBytes(s[str_len], 0)
    ELSE At(buf, i)

EncodeBuf(buf, s, str_len) ==
    Array([k \in 1..U16_LEN |-> EncodeWord(buf, s, str_len, k - 1)], U16_LEN)

\* the length check against the bytes of all U16_LEN words, length word included
EncodeTooBigAllWords(str_len) == str_len > 2 * U16_LEN

\* the length check of encode
EncodeTooBig(str_len) == str_len > 2 * (U16_LEN - 1)

----------------------------------------------------------------------------
(* StringDes *)

\* StringDes::new: [0; U8_LEN]
StringDesNew(cap8) == Array([j \in 1..cap8 |-> 0], cap8)

\* the length check of decode_u16
DecodeTooBig(w) == At(w, 0) > U8_LEN

\* whether the loop of decode_u16 writes u8_buf[j]: two bytes per source word
\* after the length word, as long as dest_it yields one
IsWritten(j) == j >= 0 /\ j < U8_LEN /\ (j \div 2) + 1 <= U16_LEN - 1

\* the larger of two indices
Max(a, b) == IF a >= b THEN a ELSE b

\* largest index of u8_buf the loop of decode_u16 writes: dest_it.next() is
\* called twice per source word and yields indices below U8_LEN only
LastWritten == Max(-1, (IF 2 * (U16_LEN - 1) <= U8_LEN THEN 2 * (U16_LEN - 1) ELSE U8_LEN) - 1)

\* u8_buf after the loop of decode_u16
DecodeBuf(buf, w) ==
    Array([k \in 1..U8_LEN |->
              IF IsWritten(k - 1)
              THEN ToLeByte(At(w, ((k - 1) \div 2) + 1), (k - 1) % 2)
              ELSE At(buf, k - 1)],
          U8_LEN)

\* as_str validating the whole buffer instead of its first l bytes
AsStrWholeBuf(l, buf) ==
    IF l > 2 * (U16_LEN - 1) THEN "StrLenTooBig"
    ELSE IF l > U8_LEN THEN "Panic"
    ELSE IF from_utf8_ok(buf, U8_LEN) THEN "Ok"
    ELSE "Utf8Decode"

\* StringDes::as_str on the fields (l, buf)
AsStr(l, buf) ==
    IF l > 2 * (U16_LEN - 1) THEN "StrLenTooBig"
    ELSE IF l > U8_LEN THEN "Panic"
    ELSE IF from_utf8_ok(buf, l) THEN "Ok"
    ELSE "Utf8Decode"

\* largest index of u8_buf the slice [..l] of as_str takes (-1: none)
LastRead(l) ==
    IF l > 2 * (U16_LEN - 1) \/ l > U8_LEN THEN -1 ELSE l - 1

\* the &str the last decode_u16 returned, when it returned Ok: &u8_buf[..len]
DesStr == SubSeq(u8_buf, 1, len)

----------------------------------------------------------------------------
(* ComSpec and the constants of ComState (src/src/lib.rs) *)

ComSpec(verb, w_words, r_words, response) ==
    [verb |-> verb, w_words |-> w_words, r_words |-> r_words, response |-> response]

\* pub const NAME: ComSpec = ComSpec{verb, w_words, r_words, response}
ComStateRows ==
       "SSID_CHECK" :> ComSpec(8192, 0, 1, FALSE)  \* 0x2000
    @@ "SSID_FETCH" :> ComSpec(8448, 0, 16 * 6, FALSE)  \* 0x2100
    @@ "SSID_FETCH_STR" :> ComSpec(8449, 0, 34 * 8, FALSE)  \* 0x2101
    @@ "WFX_PDS_LINE_SET" :> ComSpec(8704, 129, 0, FALSE)  \* 0x2200
    @@ "WFX_RXSTAT_GET" :> ComSpec(8705, 0, 376 \div 2, FALSE)  \* 0x2201
    @@ "WFX_FW_REV_GET" :> ComSpec(8706, 0, 3, FALSE)  \* 0x2202
    @@ "WF200_RESET" :> ComSpec(8707, 1, 0, FALSE)  \* 0x2203
    @@ "SSID_SCAN_ON" :> ComSpec(8708, 0, 0, FALSE)  \* 0x2204
    @@ "SSID_SCAN_OFF" :> ComSpec(8709, 0, 0, FALSE)  \* 0x2205
    @@ "WF200_DEBUG" :> ComSpec(8710, 0, 8, FALSE)  \* 0x2206
    @@ "WLAN_ON" :> ComSpec(8960, 0, 0, FALSE)  \* 0x2300
    @@ "WLAN_OFF" :> ComSpec(8961, 0, 0, FALSE)  \* 0x2301
    @@ "WLAN_SET_SSID" :> ComSpec(8962, 17, 0, FALSE)  \* 0x2302
    @@ "WLAN_SET_PASS" :> ComSpec(8963, 33, 0, FALSE)  \* 0x2303
    @@ "WLAN_JOIN" :> ComSpec(8964, 0, 0, FALSE)  \* 0x2304
    @@ "WLAN_LEAVE" :> ComSpec(8965, 0, 0, FALSE)  \* 0x2305
    @@ "WLAN_STATUS" :> ComSpec(8966, 0, 33, FALSE)  \* 0x2306
    @@ "WLAN_GET_IPV4_CONF" :> ComSpec(8967, 0, 14, FALSE)  \* 0x2307
    @@ "WLAN_GET_ERRCOUNTS" :> ComSpec(8968, 0, 4, FALSE)  \* 0x2308
    @@ "WLAN_BIN_STATUS" :> ComSpec(8969, 0, 2 + 14 + 17, FALSE)  \* 0x2309
    @@ "WLAN_GET_RSSI" :> ComSpec(8970, 0, 1, FALSE)  \* 0x230A
    @@ "WLAN_SYNC_STATE" :> ComSpec(8971, 0, 2, FALSE)  \* 0x230B
    @@ "FLASH_WAITACK" :> ComSpec(12288, 0, 1, FALSE)  \* 0x3000
    @@ "FLASH_ACK" :> ComSpec(15555, 0, 0, TRUE)  \* 0x3CC3
    @@ "FLASH_ERASE" :> ComSpec(12800, 4, 0, FALSE)  \* 0x3200
    @@ "FLASH_PP" :> ComSpec(13056, 130, 0, FALSE)  \* 0x3300
    @@ "FLASH_LOCK" :> ComSpec(13312, 0, 0, FALSE)  \* 0x3400
    @@ "FLASH_UNLOCK" :> ComSpec(13364, 0, 0, FALSE)  \* 0x3434
    @@ "LOOP_TEST" :> ComSpec(16384, 0, 1, FALSE)  \* 0x4000
    @@ "EC_GIT_REV" :> ComSpec(16385, 0, 3, FALSE)  \* 0x4001
    @@ "UPTIME" :> ComSpec(16386, 0, 4, FALSE)  \* 0x4002
    @@ "TRNG_SEED" :> ComSpec(16387, 8, 0, FALSE)  \* 0x4003
    @@ "EC_SW_TAG" :> ComSpec(16388, 0, 16, FALSE)  \* 0x4004
    @@ "CHG_START" :> ComSpec(23040, 0, 0, FALSE)  \* 0x5A00
    @@ "CHG_BOOST_ON" :> ComSpec(23227, 0, 0, FALSE)  \* 0x5ABB
    @@ "CHG_BOOST_OFF" :> ComSpec(23294, 0, 0, FALSE)  \* 0x5AFE
    @@ "BL_START" :> ComSpec(26624, 0, 0, FALSE)  \* 0x6800
    @@ "BL_END" :> ComSpec(27647, 0, 0, FALSE)  \* 0x6BFF
    @@ "GAS_GAUGE" :> ComSpec(28672, 0, 4, FALSE)  \* 0x7000
    @@ "GG_FACTORY_CAPACITY" :> ComSpec(30326, 1, 1, FALSE)  \* 0x7676
    @@ "GG_GET_CAPACITY" :> ComSpec(30208, 0, 1, FALSE)  \* 0x7600
    @@ "GG_DEBUG" :> ComSpec(29184, 0, 1, FALSE)  \* 0x7200
    @@ "GG_SOC" :> ComSpec(29440, 0, 1, FALSE)  \* 0x7300
    @@ "GG_REMAINING" :> ComSpec(29696, 0, 1, FALSE)  \* 0x7400
    @@ "GG_FULL_CAPACITY" :> ComSpec(29698, 0, 1, FALSE)  \* 0x7402
    @@ "STAT" :> ComSpec(32768, 0, 16, FALSE)  \* 0x8000
    @@ "STAT_RETURN" :> ComSpec(32769, 0, 0, TRUE)  \* 0x8001
    @@ "POWER_OFF" :> ComSpec(36864, 0, 1, FALSE)  \* 0x9000
    @@ "POWER_CHARGER_STATE" :> ComSpec(37120, 0, 1, FALSE)  \* 0x9100
    @@ "POWER_SHIPMODE" :> ComSpec(37376, 0, 0, FALSE)  \* 0x9200
    @@ "GYRO_UPDATE" :> ComSpec(40960, 0, 0, FALSE)  \* 0xA000
    @@ "GYRO_READ" :> ComSpec(41216, 0, 4, FALSE)  \* 0xA100
    @@ "POLL_USB_CC" :> ComSpec(45056, 0, 5, FALSE)  \* 0xB000
    @@ "NET_FRAME_FETCH_0" :> ComSpec(51200, 0, 0, FALSE)  \* 0xC800
    @@ "NET_FRAME_FETCH_1" :> ComSpec(51201, 0, 1, FALSE)  \* 0xC801
    @@ "NET_FRAME_FETCH_2" :> ComSpec(51202, 0, 2, FALSE)  \* 0xC802
    @@ "NET_FRAME_FETCH_7FF" :> ComSpec(53247, 0, 2047, FALSE)  \* 0xCFFF
    @@ "NET_FRAME_SEND_0" :> ComSpec(49152, 0, 0, FALSE)  \* 0xC000
    @@ "NET_FRAME_SEND_1" :> ComSpec(49153, 1, 0, FALSE)  \* 0xC001
    @@ "NET_FRAME_SEND_7FF" :> ComSpec(51199, 2047, 0, FALSE)  \* 0xC7FF
    @@ "LINK_READ" :> ComSpec(61680, 0, 0, FALSE)  \* 0xF0F0
    @@ "LINK_SYNC" :> ComSpec(65535, 0, 0, FALSE)  \* 0xFFFF
    @@ "LINK_GET_INTERRUPT" :> ComSpec(61704, 0, 2, FALSE)  \* 0xF108
    @@ "LINK_SET_INTMASK" :> ComSpec(61705, 1, 0, FALSE)  \* 0xF109
    @@ "LINK_GET_INTMASK" :> ComSpec(61706, 0, 1, FALSE)  \* 0xF10A
    @@ "LINK_ACK_INTERRUPT" :> ComSpec(61707, 1, 0, FALSE)  \* 0xF10B
    @@ "ERROR" :> ComSpec(57005, 0, 0, TRUE)  \* 0xDEAD

\* the table with two verbs alike: FLASH_UNLOCK given the code of FLASH_LOCK
ComStateDupVerb ==
    [n \in DOMAIN ComStateRows |->
        IF n = "FLASH_UNLOCK" THEN [ComStateRows[n] EXCEPT !.verb = ComStateRows["FLASH_LOCK"].verb]
        ELSE ComStateRows[n]]

\* the table with WLAN_SET_SSID counting the 16 data words without the length word
ComStateSsidDataWords ==
    [n \in DOMAIN ComStateRows |->
        IF n = "WLAN_SET_SSID" THEN [ComStateRows[n] EXCEPT !.w_words = 16]
        ELSE ComStateRows[n]]

\* the table with a response that takes a payload word
ComStateRespWrites ==
    [n \in DOMAIN ComStateRows |->
        IF n = "STAT_RETURN" THEN [ComStateRows[n] EXCEPT !.w_words = 1]
        ELSE ComStateRows[n]]

\* impl ComState: its associated constants by name
ComState == ComStateRows

\* the codes a verb word can hold
VerbCodes == 0..(WordMod - 1)

\* lookup(code): the constants whose verb is the code
Lookup(c) == {n \in DOMAIN ComState : ComState[n].verb = c}

----------------------------------------------------------------------------
(* LinkState and ConnectResult (src/src/lib.rs) *)

\* enum LinkState, in the order of its discriminants 0..7
LinkStates ==
    <<"Unknown", "ResetHold", "Uninitialized", "Initializing", "Disconnected", "Connecting",
      "Connected", "WFXError">>

\* v as u16 of a LinkState v
LinkStateAsU16(v) == CHOOSE d \in 0..7 : LinkStates[d + 1] = v

\* LinkState::decode_u16
LinkStateDecodeU16(x) ==
    IF x = 0 THEN "Unknown"
    ELSE IF x = 1 THEN "ResetHold"
    ELSE IF x = 2 THEN "Uninitialized"
    ELSE IF x = 3 THEN "Initializing"
    ELSE IF x = 4 THEN "Disconnected"
    ELSE IF x = 5 THEN "Connecting"
    ELSE IF x = 6 THEN "Connected"
    ELSE IF x = 7 THEN "WFXError"
    ELSE "Unknown"

\* enum ConnectResult: the discriminant of each variant, in the order declared
ConnectResultAsU16 ==
       "Success" :> 0
    @@ "NoMatchingAp" :> 1
    @@ "Aborted" :> 7
    @@ "Timeout" :> 2
    @@ "Reject" :> 3
    @@ "AuthFail" :> 4
    @@ "Error" :> 5
    @@ "Pending" :> 6

\* the match without the arm for 7: Aborted is never returned
ConnectResultDecodeNoAborted(x) ==
    IF x = 0 THEN "Success"
    ELSE IF x = 1 THEN "NoMatchingAp"
    ELSE IF x = 2 THEN "Timeout"
    ELSE IF x = 3 THEN "Reject"
    ELSE IF x = 4 THEN "AuthFail"
    ELSE IF x = 5 THEN "Error"
    ELSE "Pending"

\* ConnectResult::decode_u16
ConnectResultDecodeU16(x) ==
    IF x = 0 THEN "Success"
    ELSE IF x = 1 THEN "NoMatchingAp"
    ELSE IF x = 2 THEN "Timeout"
    ELSE IF x = 3 THEN "Reject"
    ELSE IF x = 4 THEN "AuthFail"
    ELSE IF x = 5 THEN "Error"
    ELSE IF x = 7 THEN "Aborted"
    ELSE "Pending"

----------------------------------------------------------------------------
(* DhcpState and Ipv4Conf (src/src/serdes.rs) *)

\* enum DhcpState, in the order of its discriminants 0..7
DhcpStates ==
    <<"Halted", "Init", "Selecting", "Requesting", "Bound", "Renewing", "Rebinding", "Invalid">>

\* self.dhcp as u16
DhcpAsU16(v) == CHOOSE d \in 0..7 : DhcpStates[d + 1] = v

\* the match on data[0] of Ipv4Conf::decode_u16
DhcpDecode(x) ==
    IF x = 0 THEN "Halted"
    ELSE IF x = 1 THEN "Init"
    ELSE IF x = 2 THEN "Selecting"
    ELSE IF x = 3 THEN "Requesting"
    ELSE IF x = 4 THEN "Bound"
    ELSE IF x = 5 THEN "Renewing"
    ELSE IF x = 6 THEN "Rebinding"
    ELSE "Invalid"

\* a pair packed with the shift applied to the low byte
PackSwapped(b0, b1) == ((b0 * ByteMod) % WordMod) + b1

\* b0 as u16 | (b1 as u16) << 8
Pack(b0, b1) == b0 + ((b1 * ByteMod) % WordMod)

\* w as u8
LowU8(w) == w % ByteMod

\* the high byte taken without the shift
HighU8Unshifted(w) == w % ByteMod

\* (w >> 8) as u8
HighU8(w) == (w \div ByteMod) % ByteMod

\* word i of Ipv4Conf::encode_u16 (ret[i]), 0 where nothing is assigned
Ipv4Word(r, i) ==
    IF i = 0 THEN DhcpAsU16(r.dhcp)
    ELSE IF i <= 3 THEN Pack(At(r.mac, 2 * (i - 1)), At(r.mac, 2 * (i - 1) + 1))
    ELSE IF i <= 5 THEN Pack(At(r.addr, 2 * (i - 4)), At(r.addr, 2 * (i - 4) + 1))
    ELSE IF i <= 7 THEN Pack(At(r.gtwy, 2 * (i - 6)), At(r.gtwy, 2 * (i - 6) + 1))
    ELSE IF i <= 9 THEN Pack(At(r.mask, 2 * (i - 8)), At(r.mask, 2 * (i - 8) + 1))
    ELSE IF i <= 11 THEN Pack(At(r.dns1, 2 * (i - 10)), At(r.dns1, 2 * (i - 10) + 1))
    ELSE IF i <= 13 THEN Pack(At(r.dns2, 2 * (i - 12)), At(r.dns2, 2 * (i - 12) + 1))
    ELSE 0

\* the last index encode_u16 assigns
Ipv4LastWord == 13

\* the length of the array encode_u16 returns
Ipv4Words == ComState["WLAN_GET_IPV4_CONF"].r_words

\* the array is too short for the last assignment
Ipv4EncodePanics == Ipv4Words <= Ipv4LastWord

\* Ipv4Conf::encode_u16: the array it returns
Ipv4EncodeU16(r) == Array([k \in 1..Ipv4Words |-> Ipv4Word(r, k - 1)], Ipv4Words)

\* bytes 2k and 2k+1 of a field from data[i + k], k < words
Ipv4Field(d, i, words) ==
    Array([j \in 1..(2 * words) |->
              IF (j - 1) % 2 = 0 THEN LowU8(At(d, i + ((j - 1) \div 2)))
              ELSE HighU8(At(d, i + ((j - 1) \div 2)))],
          2 * words)

\* Ipv4Conf::decode_u16
Ipv4DecodeU16(d) ==
    [dhcp |-> DhcpDecode(At(d, 0)),
     mac  |-> Ipv4Field(d, 1, 3),
     addr |-> Ipv4Field(d, 4, 2),
     gtwy |-> Ipv4Field(d, 6, 2),
     mask |-> Ipv4Field(d, 8, 2),
     dns1 |-> Ipv4Field(d, 10, 2),
     dns2 |-> Ipv4Field(d, 12, 2)]

----------------------------------------------------------------------------
(* The inputs the calls are made with *)

\* const U16_LEN: usize = 4 of the unit tests, and their string "short"
TestU16Len == 4
Short == <<115, 104, 111, 114, 116>>

\* &[5, c2u16('s', 'h'), c2u16('o', 'r'), 't' as u16] of the unit tests
ShortWords == <<5, FromLeBytes(115, 104), FromLeBytes(111, 114), 116>>

\* byte k (from 1) of the sample texts: 1 "aaa...", 2 "\u{e9}a\u{e9}a..." (the
\* two-byte character starts a word), 3 "a\u{e9}a\u{e9}..." (it straddles two
\* words), 4 "short" of the unit tests followed by "aaa..."
\* ('a' is 0x61 = 97, U+00E9 is 0xC3 0xA9 = 195 169)
TextByte(t, k) ==
    IF t = 1 THEN 97
    ELSE IF t = 4 THEN (IF k <= Len(Short) THEN Short[k] ELSE 97)
    ELSE LET r == IF t = 2 THEN (k - 1) % 3 ELSE (k + 1) % 3
         IN  IF r = 0 THEN 195 ELSE IF r = 1 THEN 169 ELSE 97

\* the first m bytes of sample text t
Text(t, m) == Array([k \in 1..m |-> TextByte(t, k)], m)

\* what encode is called with, as <<text, length>>: in a small capacity every
\* string up to one byte longer than the capacity, in the capacity of the unit
\* tests "short" and a string too long, in the wide capacity the longest
\* string a 16-bit length word can describe, the next longer one and one
\* too long for the capacity
EncArgs ==
    (IF U16_LEN <= MaxU16Len
     THEN {<<t, m>> : t \in 1..3, m \in 0..(2 * (U16_LEN - 1) + 1)}
     ELSE {})
    \cup (IF U16_LEN = TestU16Len THEN {<<4, Len(Short)>>, <<4, Len(Short) + 2>>} ELSE {})
    \cup (IF U16_LEN = WideU16Len
          THEN {<<1, WordMod - 1>>, <<1, WordMod>>, <<1, 2 * (U16_LEN - 1) + 1>>}
          ELSE {})

\* data words a corrupted link delivers: "aa", 'a' then 0xFF, U+00E9
DataWords == {FromLeBytes(97, 97), FromLeBytes(97, 255), FromLeBytes(195, 169)}

\* a word array from the link: length word l, first data word d1, every other
\* data word d
LinkWords(l, d1, d) ==
    Array([k \in 1..U16_LEN |-> IF k = 1 THEN l ELSE IF k = 2 THEN d1 ELSE d], U16_LEN)

\* the length words the link delivers: up to one past the capacity, and the
\* largest word
LinkLens ==
    IF U16_LEN <= MaxU16Len THEN (0..(U8_LEN + 1)) \cup {WordMod - 1} ELSE {}

\* byte values the records are filled with
ByteSamples == {0, 1, 128, 255}

\* the 26 bytes of a record, mac first: byte p is x and every other byte y, or
\* (p = 0) byte q is x + 9q, so that no two bytes are alike
RecordBytes(p, x, y) ==
    [q \in 1..26 |-> IF p = 0 THEN (x + 9 * q) % ByteMod ELSE IF q = p THEN x ELSE y]

\* the Ipv4Conf with DHCP state v and the 26 bytes b
Ipv4Conf(v, b) ==
    [dhcp |-> v,
     mac  |-> SubSeq(b, 1, 6),
     addr |-> SubSeq(b, 7, 10),
     gtwy |-> SubSeq(b, 11, 14),
     mask |-> SubSeq(b, 15, 18),
     dns1 |-> SubSeq(b, 19, 22),
     dns2 |-> SubSeq(b, 23, 26)]

\* the records that are sent
Records ==
    {Ipv4Conf(DhcpStates[v], Array(RecordBytes(p, x, y), 26)) :
        v \in 1..Len(DhcpStates), p \in 0..26, x \in ByteSamples, y \in ByteSamples}

\* words a corrupted link delivers in place of the DHCP state
DhcpWords == {0, 6, 7, 8, 255, 256, 263, WordMod - 1}

----------------------------------------------------------------------------
(* The calls *)

Capacities == (1..MaxU16Len) \cup {TestU16Len, WideU16Len}

\* StringSer::<cap>::new() and StringDes::<cap, 2*(cap-1)>::new()
StrNew(cap) ==
    /\ U16_LEN = cap
    /\ u16_buf = StringSerNew(cap)
    /\ len = 0
    /\ u8_buf = StringDesNew(2 * (cap - 1))
    /\ op = "new"
    /\ enc_in = <<>>
    /\ ser_ret = "None"
    /\ dec_in = StringSerNew(cap)
    /\ des_ret = "None"
    /\ hi_word = -1
    /\ hi_byte = -1
    /\ calls = 0

\* no record has been encoded or decoded
IpIdle(r) ==
    /\ conf = r
    /\ ip_ret = "None"
    /\ data = <<>>
    /\ dec_data = <<>>
    /\ conf_out = <<>>

\* no verb has been looked up
VerbIdle ==
    /\ code = -1
    /\ found = {}

\* no status decoder has been called on the status word x
StatusIdle(x) ==
    /\ state = x
    /\ link_out = "None"
    /\ connect_out = "None"

\* StringSer::encode(s)
Encode(s) ==
    /\ calls < MaxCalls
    /\ calls' = calls + 1
    /\ op' = "encode"
    /\ enc_in' = s
    /\ IF EncodeTooBig(Len(enc_in'))
       THEN /\ ser_ret' = "StrLenTooBig"
            /\ u16_buf' = u16_buf
       ELSE /\ ser_ret' = "Ok"
            /\ u16_buf' = EncodeBuf(u16_buf, enc_in', Len(enc_in'))
    /\ UNCHANGED <<U16_LEN, len, u8_buf, dec_in, des_ret, hi_word, hi_byte, ipVars, verbVars, statusVars>>

\* decode_u16 trusting the length word: neither it nor as_str compares the
\* length with the capacity, and the slice [..len] panics past the buffer
DecodeTrusting(w) ==
    /\ calls < MaxCalls
    /\ calls' = calls + 1
    /\ op' = "decode"
    /\ dec_in' = w
    /\ len' = At(dec_in', 0)
    /\ u8_buf' = DecodeBuf(u8_buf, dec_in')
    /\ des_ret' = IF len' > U8_LEN THEN "Panic"
                  ELSE IF from_utf8_ok(u8_buf', len') THEN "Ok" ELSE "Utf8Decode"
    /\ hi_word' = U16_LEN - 1
    /\ hi_byte' = Max(LastWritten, IF len' > U8_LEN THEN -1 ELSE len' - 1)
    /\ UNCHANGED <<U16_LEN, u16_buf, enc_in, ser_ret, ipVars, verbVars, statusVars>>

\* StringDes::decode_u16(w)
Decode(w) ==
    /\ calls < MaxCalls
    /\ calls' = calls + 1
    /\ op' = "decode"
    /\ dec_in' = w
    /\ IF DecodeTooBig(dec_in')
       THEN /\ des_ret' = "StrLenTooBig"
            /\ hi_word' = 0
            /\ hi_byte' = -1
            /\ UNCHANGED <<len, u8_buf>>
       ELSE /\ len' = At(dec_in', 0)
            /\ u8_buf' = DecodeBuf(u8_buf, dec_in')
            /\ des_ret' = AsStr(len', u8_buf')
            /\ hi_word' = U16_LEN - 1
            /\ hi_byte' = Max(LastWritten, LastRead(len'))
    /\ UNCHANGED <<U16_LEN, u16_buf, enc_in, ser_ret, ipVars, verbVars, statusVars>>

\* a &str is valid UTF-8
IsStr(s) == from_utf8_ok(s, Len(s))

\* ser.encode(s) for a string s
EncodeCall ==
    \E a \in EncArgs : Encode(Text(a[1], a[2])) /\ IsStr(enc_in') = TRUE

\* des.decode_u16(ser.as_u16_slice()): the encoder's buffer is decoded
RoundTripCall == Decode(u16_buf)

\* des.decode_u16(w) for words w from the link
LinkCall ==
    \/ \E l \in LinkLens, d1 \in DataWords, d \in DataWords : Decode(LinkWords(l, d1, d))
    \/ U16_LEN = TestU16Len /\ Decode(ShortWords)

Next == EncodeCall \/ RoundTripCall \/ LinkCall

Init ==
    /\ \E cap \in Capacities : StrNew(cap)
    /\ IpIdle(Ipv4Conf("Halted", Array(RecordBytes(1, 0, 0), 26)))
    /\ VerbIdle
    /\ StatusIdle(0)

\* the string codec: one encoder and one decoder, called in any order
Spec == Init /\ [][Next]_vars

\* conf.encode_u16()
Ipv4Encode ==
    /\ ip_ret' = IF Ipv4EncodePanics THEN "Panic" ELSE "Ok"
    /\ data' = IF Ipv4EncodePanics THEN <<>> ELSE Ipv4EncodeU16(conf)
    /\ dec_data' = <<>>
    /\ conf_out' = <<>>
    /\ UNCHANGED <<conf, strVars, verbVars, statusVars>>

\* Ipv4Conf::decode_u16(d)
Ipv4Decode(d) ==
    /\ dec_data' = d
    /\ conf_out' = <<Ipv4DecodeU16(dec_data')>>
    /\ UNCHANGED <<conf, ip_ret, data, strVars, verbVars, statusVars>>

\* the words that were encoded are decoded
Ipv4RoundTripCall == ip_ret = "Ok" /\ Ipv4Decode(data)

\* the words are decoded with another word in place of the DHCP state
Ipv4LinkCall ==
    /\ ip_ret = "Ok"
    /\ \E w \in DhcpWords : Ipv4Decode(<<w>> \o Tail(data))

NextIpv4 == Ipv4Encode \/ Ipv4RoundTripCall \/ Ipv4LinkCall

InitIpv4 ==
    /\ StrNew(TestU16Len)
    /\ \E r \in Records : IpIdle(r)
    /\ VerbIdle
    /\ StatusIdle(0)

\* the record codec: a record is encoded, and words are decoded
SpecIpv4 == InitIpv4 /\ [][NextIpv4]_vars

\* the next verb code is looked up in the table, every code in its turn
LookupCall ==
    /\ code + 1 \in VerbCodes
    /\ code' = code + 1
    /\ found' = Lookup(code')
    /\ UNCHANGED <<strVars, ipVars, statusVars>>

NextVerbs == LookupCall

InitVerbs ==
    /\ StrNew(TestU16Len)
    /\ IpIdle(Ipv4Conf("Halted", Array(RecordBytes(1, 0, 0), 26)))
    /\ VerbIdle
    /\ StatusIdle(0)

\* the verb table: the 16-bit codes are looked up
SpecVerbs == InitVerbs /\ [][NextVerbs]_vars

\* the values a u16 can hold
U16Values == 0..(WordMod - 1)

\* LinkState::decode_u16(state)
LinkStateDecodeCall ==
    /\ link_out' = LinkStateDecodeU16(state)
    /\ UNCHANGED <<state, connect_out, strVars, ipVars, verbVars>>

\* ConnectResult::decode_u16(state)
ConnectResultDecodeCall ==
    /\ connect_out' = ConnectResultDecodeU16(state)
    /\ UNCHANGED <<state, link_out, strVars, ipVars, verbVars>>

\* Ipv4Conf::decode_u16 of the words of conf with state as word 0
DhcpDecodeCall == Ipv4Decode(<<state>> \o Tail(Ipv4EncodeU16(conf)))

NextStatus == LinkStateDecodeCall \/ ConnectResultDecodeCall \/ DhcpDecodeCall

InitStatus ==
    /\ StrNew(TestU16Len)
    /\ IpIdle(Ipv4Conf("Halted", Array(RecordBytes(1, 0, 0), 26)))
    /\ VerbIdle
    /\ \E x \in U16Values : StatusIdle(x)

\* the status decoders: each is applied to a 16-bit status word
SpecStatus == InitStatus /\ [][NextStatus]_vars

----------------------------------------------------------------------------
(* What the claims speak of *)

\* the capacity in bytes the claims name: 2*(U16_LEN-1)
MaxBytes == 2 * (U16_LEN - 1)

\* byte j (from 0) of string s, 0 when s has no such byte
ByteOr0(s, j) == IF j < Len(s) THEN s[j + 1] ELSE 0

\* byte j (from 0) of the text a word array w carries: the low byte of
\* w[1 + j/2] when j is even, its high byte when j is odd
WireByte(w, j) ==
    IF j % 2 = 0 THEN At(w, 1 + (j \div 2)) % 256 ELSE At(w, 1 + (j \div 2)) \div 256

\* the first n bytes a word array carries
WireBytes(w, n) == Array([k \in 1..n |-> WireByte(w, k - 1)], n)

\* the last call decoded the words the last encode returned
RoundTripped == op = "decode" /\ ser_ret = "Ok" /\ dec_in = u16_buf

\* the last call decoded words whose length word fits the capacity
DecodedFitting == op = "decode" /\ At(dec_in, 0) <= MaxBytes

\* the first L bytes of the words last decoded are valid UTF-8
WireValid == from_utf8_ok(WireBytes(dec_in, At(dec_in, 0)), At(dec_in, 0))

----------------------------------------------------------------------------
(* C1 *)

\* C1 as stated: in every capacity, decoding the words a successful encode(s)
\* returned gives Ok(s), whatever the two instances were used for before.
C1_RoundTripAnyCapacity ==
    RoundTripped => (des_ret = "Ok" /\ DesStr = enc_in)

\* C1 within the length word: decoding the words a successful encode(s) returned gives Ok(s)
\* whenever the byte length of s also fits the 16-bit length word (it is at most
\* 65535, which every s within the capacity is when U16_LEN <= 32768),
\* whatever the two instances were used for before.
C1_RoundTrip ==
    (RoundTripped /\ Len(enc_in) < WordMod) => (des_ret = "Ok" /\ DesStr = enc_in)

\* a two-byte character came back from a buffer that still holds a word of
\* an earlier, longer string
C1_Witness ==
    /\ RoundTripped
    /\ U16_LEN = 3
    /\ enc_in = <<195, 169>>
    /\ At(u16_buf, 2) = 169 + 256 * 97
    /\ des_ret = "Ok"
    /\ DesStr = enc_in
    /\ calls = 3

----------------------------------------------------------------------------
(* C2 *)

\* the data words of the buffer are the bytes of s, two per word, low byte
\* first, a missing last byte counting as 0
C2_DataWords ==
    \A k \in 1..((Len(enc_in) + 1) \div 2) :
        At(u16_buf, k) = ByteOr0(enc_in, 2 * k - 2) + 256 * ByteOr0(enc_in, 2 * k - 1)

\* "short" encoded into a new encoder of 4 words
C2_Example ==
    (U16_LEN = TestU16Len /\ op = "encode" /\ enc_in = Short /\ calls = 1)
        => u16_buf = <<5, 115 + 256 * 104, 111 + 256 * 114, 116>>

\* C2 as stated: after a successful encode(s), word 0 is the byte length n of s
\* and words 1..ceil(n/2) are the bytes of s packed low byte first.
C2_LayoutAnyLength ==
    /\ (op = "encode" /\ ser_ret = "Ok") => (At(u16_buf, 0) = Len(enc_in) /\ C2_DataWords)
    /\ C2_Example

\* C2 within the length word: after a successful encode(s), word 0 is the byte length n of s
\* reduced modulo 65536 (n itself whenever n <= 65535), and words 1..ceil(n/2)
\* are the bytes of s packed low byte first, a missing last byte counting as 0.
C2_Layout ==
    /\ (op = "encode" /\ ser_ret = "Ok") =>
            /\ At(u16_buf, 0) = Len(enc_in) % 65536
            /\ Len(enc_in) <= 65535 => At(u16_buf, 0) = Len(enc_in)
            /\ C2_DataWords
    /\ C2_Example

\* an odd string was encoded over a longer one: its last word has a zero high byte
C2_Witness ==
    /\ op = "encode"
    /\ ser_ret = "Ok"
    /\ U16_LEN = 3
    /\ enc_in = <<97>>
    /\ u16_buf = <<1, 97, 97 + 256 * 97>>

----------------------------------------------------------------------------
(* C3 *)

\* C3: a call of encode with a string longer than 2*(U16_LEN-1) bytes returns
\* Err(StrLenTooBig) and leaves every word of the buffer as it was.
C3_TooLongRejected ==
    [][(op' = "encode" /\ calls' = calls + 1 /\ Len(enc_in') > MaxBytes)
          => (ser_ret' = "StrLenTooBig" /\ u16_buf' = u16_buf)]_vars

\* a string one byte too long was refused by an encoder whose buffer holds an
\* earlier string
C3_Witness ==
    /\ op = "encode"
    /\ Len(enc_in) = MaxBytes + 1
    /\ ser_ret = "StrLenTooBig"
    /\ At(u16_buf, 0) = MaxBytes
    /\ At(u16_buf, 0) > 0

----------------------------------------------------------------------------
(* C4 *)

\* C4: decode_u16 of words whose length word exceeds 2*(U16_LEN-1) returns
\* Err(StrLenTooBig), and no call of decode_u16 reads a word at an index
\* >= U16_LEN or touches a byte at an index >= U8_LEN.
C4_LengthWordRejected ==
    /\ (op = "decode" /\ At(dec_in, 0) > MaxBytes) => des_ret = "StrLenTooBig"
    /\ op = "decode" => (hi_word < U16_LEN /\ hi_byte < U8_LEN)

\* the largest length word was refused by a decoder that holds an earlier string
C4_Witness ==
    /\ op = "decode"
    /\ At(dec_in, 0) = 65535
    /\ des_ret = "StrLenTooBig"
    /\ len > 0
    /\ hi_word = 0

----------------------------------------------------------------------------
(* C5 *)

\* C5: decode_u16 of words whose length word L fits the capacity returns
\* Err(Utf8Decode) when the first L bytes are not valid UTF-8, and no error
\* when they are, whatever the bytes at positions >= L.
C5_MalformedIsError ==
    DecodedFitting =>
        /\ ~WireValid => des_ret = "Utf8Decode"
        /\ WireValid => des_ret = "Ok"

\* a character cut in half by the length word was reported
C5_Witness ==
    /\ DecodedFitting
    /\ At(dec_in, 0) = 3
    /\ At(dec_in, 1) = FromLeBytes(97, 97)
    /\ At(dec_in, 2) = FromLeBytes(195, 169)
    /\ des_ret = "Utf8Decode"

----------------------------------------------------------------------------
(* C6 *)

\* C6: decode_u16 of words whose length word L fits the capacity and whose
\* first L bytes are valid UTF-8 returns the string of exactly L bytes whose
\* byte j is the low (j even) or high (j odd) byte of word 1 + j/2; and the
\* words of the unit test decode to "short".
C6_DecodeLayout ==
    /\ (DecodedFitting /\ WireValid) =>
            /\ des_ret = "Ok"
            /\ Len(DesStr) = At(dec_in, 0)
            /\ \A j \in 0..(At(dec_in, 0) - 1) : DesStr[j + 1] = WireByte(dec_in, j)
    /\ (U16_LEN = TestU16Len /\ op = "decode" /\ dec_in = ShortWords)
            => (des_ret = "Ok" /\ DesStr = Short)

\* one byte was decoded from a word whose high byte is 0xFF, before a word
\* that is no text at all
C6_Witness ==
    /\ DecodedFitting
    /\ U16_LEN = 3
    /\ dec_in = <<1, 97 + 256 * 255, 97 + 256 * 255>>
    /\ des_ret = "Ok"
    /\ DesStr = <<97>>

----------------------------------------------------------------------------
(* C7 *)

\* C7: for every record r, of each of the 8 DHCP states, decode_u16 of the
\* words r.encode_u16() returned is a record with the DHCP state of r and the
\* bytes of r in mac, addr, gtwy, mask, dns1 and dns2.
C7_Ipv4RoundTrip ==
    (conf_out # <<>> /\ dec_data = data) =>
        /\ conf_out[1].dhcp = conf.dhcp
        /\ conf_out[1].mac = conf.mac
        /\ conf_out[1].addr = conf.addr
        /\ conf_out[1].gtwy = conf.gtwy
        /\ conf_out[1].mask = conf.mask
        /\ conf_out[1].dns1 = conf.dns1
        /\ conf_out[1].dns2 = conf.dns2

\* a record in state Invalid, no two of whose bytes are alike, came back
C7_Witness ==
    /\ conf.dhcp = "Invalid"
    /\ conf.mac = <<137, 146, 155, 164, 173, 182>>
    /\ conf.dns2 = <<79, 88, 97, 106>>
    /\ dec_data = data
    /\ conf_out = <<conf>>

----------------------------------------------------------------------------
(* C8 *)

\* word k (from 0) of a field f that starts at word i is byte 2k of f plus 256
\* times byte 2k+1
C8_Field(f, i, words) ==
    \A k \in 0..(words - 1) : At(data, i + k) = At(f, 2 * k) + 256 * At(f, 2 * k + 1)

\* C8: encode_u16 returns exactly 14 words: word 0 is the integer 0..7 of the
\* DHCP state, words 1-3 are mac, 4-5 addr, 6-7 gtwy, 8-9 mask, 10-11 dns1 and
\* 12-13 dns2, and word k of a field is byte[2k] + 256*byte[2k+1].
C8_Ipv4Layout ==
    ip_ret # "None" =>
        /\ ip_ret = "Ok"
        /\ Len(data) = 14
        /\ At(data, 0) \in 0..7
        /\ DhcpStates[At(data, 0) + 1] = conf.dhcp
        /\ C8_Field(conf.mac, 1, 3)
        /\ C8_Field(conf.addr, 4, 2)
        /\ C8_Field(conf.gtwy, 6, 2)
        /\ C8_Field(conf.mask, 8, 2)
        /\ C8_Field(conf.dns1, 10, 2)
        /\ C8_Field(conf.dns2, 12, 2)

\* a record in state Rebinding whose only byte that is not 0 is mac[1] was
\* encoded: the byte is the high byte of word 1
C8_Witness ==
    /\ ip_ret = "Ok"
    /\ conf.dhcp = "Rebinding"
    /\ conf.mac = <<0, 1, 0, 0, 0, 0>>
    /\ data = <<6, 256, 0, 0, 0, 0, 0, 0, 0, 0, 0, 0, 0, 0>>

----------------------------------------------------------------------------
(* C9 *)

\* no two constants of ComState have the same verb
C9_Distinct ==
    \A a \in DOMAIN ComState : \A b \in DOMAIN ComState :
        a # b => ComState[a].verb # ComState[b].verb

\* C9: no two constants of ComState have the same verb, and the lookup of a
\* 16-bit code in the table finds at most one constant.
C9_VerbsUnique ==
    /\ C9_Distinct
    /\ Cardinality(found) <= 1
    /\ code \in VerbCodes => found = {n \in DOMAIN ComState : ComState[n].verb = code}

\* the lookup of 0xDEAD found ERROR and nothing else
C9_Witness ==
    /\ code = 57005
    /\ found = {"ERROR"}

----------------------------------------------------------------------------
(* C10 *)

\* C10: the constants of ComState whose response flag is true are FLASH_ACK,
\* STAT_RETURN and ERROR, and each of them has w_words = 0; so has every
\* response a lookup finds.
C10_ResponsesReadOnly ==
    /\ {n \in DOMAIN ComState : ComState[n].response} = {"FLASH_ACK", "STAT_RETURN", "ERROR"}
    /\ \A n \in DOMAIN ComState : ComState[n].response => ComState[n].w_words = 0
    /\ \A n \in found : ComState[n].response => ComState[n].w_words = 0

\* the lookup of 0x8001 found the response STAT_RETURN
C10_Witness ==
    /\ code = 32769
    /\ found = {"STAT_RETURN"}
    /\ ComState["STAT_RETURN"].response
    /\ ComState["STAT_RETURN"].w_words = 0

----------------------------------------------------------------------------
(* C11 *)

\* the variant with discriminant x when x is in 0..7, the fallback otherwise
C11_Expected(variants, fallback, x) ==
    IF x \in 0..7 THEN variants[x + 1] ELSE fallback

\* C11: for every 16-bit x, LinkState::decode_u16(x) is the variant with
\* discriminant x when x is in 0..7 and Unknown otherwise, ConnectResult::
\* decode_u16(x) is the variant with discriminant x when x is in 0..7 and Pending
\* otherwise, and the DHCP state Ipv4Conf::decode_u16 reads from word 0 = x is
\* the variant with discriminant x when x is in 0..7 and Invalid otherwise; each
\* returns a variant of its enum, none fails.
C11_DecodersTotal ==
    /\ link_out # "None" =>
            /\ link_out \in {LinkStates[i] : i \in 1..8}
            /\ link_out = C11_Expected(LinkStates, "Unknown", state)
            /\ state \in 0..7 => LinkStateAsU16(link_out) = state
    /\ connect_out # "None" =>
            /\ connect_out \in DOMAIN ConnectResultAsU16
            /\ state \in 0..7 => ConnectResultAsU16[connect_out] = state
            /\ state \notin 0..7 => connect_out = "Pending"
    /\ conf_out # <<>> =>
            /\ conf_out[1].dhcp \in {DhcpStates[i] : i \in 1..8}
            /\ conf_out[1].dhcp = C11_Expected(DhcpStates, "Invalid", At(dec_data, 0))
            /\ At(dec_data, 0) \in 0..7 => DhcpAsU16(conf_out[1].dhcp) = At(dec_data, 0)

\* the three decoders were applied to 0xFFFF and each returned its fallback
C11_Witness ==
    /\ state = 65535
    /\ link_out = "Unknown"
    /\ connect_out = "Pending"
    /\ conf_out # <<>>
    /\ At(dec_data, 0) = state
    /\ conf_out[1].dhcp = "Invalid"

\* the three decoders were applied to 7, the discriminant ConnectResult
\* declares out of order
C11_WitnessAborted ==
    /\ state = 7
    /\ link_out = "WFXError"
    /\ connect_out = "Aborted"
    /\ conf_out # <<>>
    /\ At(dec_data, 0) = state
    /\ conf_out[1].dhcp = "Invalid"

----------------------------------------------------------------------------
(* C12 *)

\* C12: WLAN_SET_SSID.w_words is STR_32_WORDS (17), WLAN_SET_PASS.w_words and
\* WLAN_STATUS.r_words are STR_64_WORDS (33), WLAN_GET_IPV4_CONF.r_words is 14,
\* the number of words encode_u16 fills and returns, and WLAN_BIN_STATUS.r_words
\* is 2 + WLAN_GET_IPV4_CONF.r_words + STR_32_WORDS.
C12_WordCounts ==
    /\ ComState["WLAN_SET_SSID"].w_words = STR_32_WORDS
    /\ STR_32_WORDS = 17
    /\ ComState["WLAN_SET_PASS"].w_words = STR_64_WORDS
    /\ ComState["WLAN_STATUS"].r_words = STR_64_WORDS
    /\ STR_64_WORDS = 33
    /\ ComState["WLAN_GET_IPV4_CONF"].r_words = 14
    /\ Ipv4LastWord + 1 = ComState["WLAN_GET_IPV4_CONF"].r_words
    /\ ComState["WLAN_BIN_STATUS"].r_words
            = 2 + ComState["WLAN_GET_IPV4_CONF"].r_words + STR_32_WORDS
    /\ ip_ret # "None" =>
            /\ ip_ret = "Ok"
            /\ Len(data) = ComState["WLAN_GET_IPV4_CONF"].r_words

\* a record was encoded into 14 words, the last of them filled from dns2
C12_Witness ==
    /\ ip_ret = "Ok"
    /\ conf.dhcp = "Bound"
    /\ conf.dns2 = <<79, 88, 97, 106>>
    /\ Len(data) = 14
    /\ At(data, 13) = 97 + 256 * 106
    /\ ComState["WLAN_GET_IPV4_CONF"].r_words = 14

----------------------------------------------------------------------------
(* C13 *)

\* the indices k with ceil(n/2) < k < U16_LEN, for the n bytes of s
C13_Beyond(s) == {k \in 1..(U16_LEN - 1) : k > (Len(s) + 1) \div 2}

\* C13 as stated: after any sequence of encode calls on one encoder, the last
\* successful of which encoded n bytes, every word at an index k with
\* ceil(n/2) < k < U16_LEN is 0.
C13_BeyondZero ==
    ser_ret = "Ok" => \A k \in C13_Beyond(enc_in) : At(u16_buf, k) = 0

\* the words beyond the string are 0 when the first call on a new encoder
\* was a successful encode
C13_FirstZero ==
    (calls = 1 /\ op = "encode" /\ ser_ret = "Ok")
        => \A k \in C13_Beyond(enc_in) : At(u16_buf, k) = 0

\* C13, amended: a successful encode of n bytes leaves every word at an index
\* k with ceil(n/2) < k < U16_LEN as it was before the call; such a word is 0
\* after the first encode on a new encoder, and holds the word an earlier call
\* wrote there otherwise.
C13_BeyondKept ==
    /\ []C13_FirstZero
    /\ [][(op' = "encode" /\ calls' = calls + 1 /\ ser_ret' = "Ok")
            => \A k \in C13_Beyond(enc_in') : At(u16_buf', k) = At(u16_buf, k)]_vars

\* the empty string was encoded over "aaaa": both data words still hold "aa"
C13_Witness ==
    /\ U16_LEN = 3
    /\ op = "encode"
    /\ ser_ret = "Ok"
    /\ enc_in = <<>>
    /\ u16_buf = <<0, 97 + 256 * 97, 97 + 256 * 97>>

====
